---- MODULE Spec2Model ----
(***************************************************************************)
(* State-machine model of the species-name matching engine:                *)
(*   taxonomy.py  TaxonomyLoader  (reference index, hierarchy lookup)      *)
(*   matcher.py   Matcher         (three-pass process_input pipeline)      *)
(* Python strings are TLA+ strings handled character by character with     *)
(* Head / Tail / SubSeq / \o, so that lower(), strip(), split() and        *)
(* splitlines() are computed and not assumed.                              *)
(***************************************************************************)
EXTENDS Integers, Sequences, FiniteSets, TLC

VARIABLES
    latin_to_row,    \* TaxonomyLoader.latin_to_row   : key -> entry
    common_to_row,   \* TaxonomyLoader.common_to_row  : key -> entry
    model,           \* Matcher.model is not None (process-wide capability)
    typed_lines,     \* the lines the caller joined into input_text
    input_text,      \* process_input argument
    user_api_key,    \* process_input argument ("" when not supplied)
    results,         \* process_input local `results` (list of result rows); with several
                     \* invocations, that of the one that finished last
    unknown_lines,   \* process_input local `unknown_lines` (indices into results)
    pc,              \* position inside process_input
    llm_calls,       \* number of generate_content calls made so far
    outcome,         \* "running", "returned" or "raised" (exception reached the caller)
    caught,          \* class of the exception the handler at line 302 caught, or "none"
    hq,              \* rank tuple handed to get_by_hierarchy (hierarchy specification)
    hres,            \* what get_by_hierarchy returned for hq
    stub,            \* the stubbed LLM capability: what it answered to each prompt so far
    first_results,   \* the list the process_input invocation that finished first returned
    invocation,      \* number of process_input invocations completed
    threads,         \* per process_input invocation in flight or finished: its position,
                     \* its location argument and its local `results`
    file_read,       \* the lines of the taxonomy file load() has read so far
    query,           \* the name handed to get_by_latin / get_by_common
    found,           \* what that lookup returned
    next_item        \* the element of the parsed response the loop is about to visit

vars == <<latin_to_row, common_to_row, model, typed_lines, input_text, user_api_key,
          results, unknown_lines, pc, llm_calls, outcome, caught, hq, hres,
          stub, first_results, invocation, threads, file_read, query, found, next_item>>

-----------------------------------------------------------------------------
(* Python str primitives                                                   *)

\* The characters str.strip() and str.split() remove: those with
\* str.isspace() true.  After the five escapes come, written as the
\* characters themselves, U+000B (VT), U+001C (FS), U+001D (GS), U+001E (RS),
\* U+001F (US), U+0085 (NEL), U+00A0 (NBSP) and U+1680.  The remaining ones
\* (U+2000..U+200A, U+2028, U+2029, U+202F, U+205F, U+3000) cannot be written
\* in a string of this module.  The strings the model's states hold are
\* ASCII: they contain none of the characters from U+0085 on.
Whitespace == {" ", "\t", "\n", "\r", "\f",
               "", "", "", "", "", "", " ", " "}

\* The line boundaries str.splitlines() recognises: the three escapes, then,
\* written as the characters themselves, U+000B (VT), U+001C (FS),
\* U+001D (GS), U+001E (RS) and U+0085 (NEL).  U+001F and U+00A0 are
\* whitespace and no boundary.  U+2028 and U+2029 are boundaries too, cannot
\* be written in a string of this module; no string of the model's states
\* contains U+0085, U+2028 or U+2029.
LineBreaks == {"\n", "\r", "\f", "", "", "", "", ""}

CharAt(s, i) == SubSeq(s, i, i)

\* str.lower() on one character (ASCII range)
LowerMap ==
    ("A" :> "a") @@ ("B" :> "b") @@ ("C" :> "c") @@ ("D" :> "d") @@ ("E" :> "e")
    @@ ("F" :> "f") @@ ("G" :> "g") @@ ("H" :> "h") @@ ("I" :> "i") @@ ("J" :> "j")
    @@ ("K" :> "k") @@ ("L" :> "l") @@ ("M" :> "m") @@ ("N" :> "n") @@ ("O" :> "o")
    @@ ("P" :> "p") @@ ("Q" :> "q") @@ ("R" :> "r") @@ ("S" :> "s") @@ ("T" :> "t")
    @@ ("U" :> "u") @@ ("V" :> "v") @@ ("W" :> "w") @@ ("X" :> "x") @@ ("Y" :> "y")
    @@ ("Z" :> "z")

LowerChar(c) == IF c \in DOMAIN LowerMap THEN LowerMap[c] ELSE c

\* str.lower(), by halves
RECURSIVE Lower(_)
Lower(s) ==
    IF s = "" THEN ""
    ELSE IF Len(s) = 1 THEN LowerChar(s)
    ELSE Lower(SubSeq(s, 1, Len(s) \div 2)) \o Lower(SubSeq(s, Len(s) \div 2 + 1, Len(s)))

Min(S) == CHOOSE x \in S : \A y \in S : x <= y
Max(S) == CHOOSE x \in S : \A y \in S : x >= y

\* the k-th smallest element of a set of integers
Nth(S, k) == CHOOSE x \in S : Cardinality({y \in S : y < x}) = k - 1

\* str.strip(): from the first to the last character that is not whitespace
Strip(s) ==
    LET keep == {i \in 1..Len(s) : CharAt(s, i) \notin Whitespace}
    IN  IF keep = {} THEN "" ELSE SubSeq(s, Min(keep), Max(keep))

\* s.split(sep) for a one-character separator: always at least one piece.
Split(s, sep) ==
    LET at == {i \in 1..Len(s) : CharAt(s, i) = sep}
        n  == Cardinality(at)
        from(k) == IF k = 1 THEN 1 ELSE Nth(at, k - 1) + 1
        to(k)   == IF k = n + 1 THEN Len(s) ELSE Nth(at, k) - 1
    IN  [k \in 1..(n + 1) |-> SubSeq(s, from(k), to(k))]

\* s.split() with no argument: runs of whitespace separate, no empty pieces.
Words(s) ==
    LET in(i)  == i >= 1 /\ i <= Len(s) /\ CharAt(s, i) \notin Whitespace
        starts == {i \in 1..Len(s) : in(i) /\ ~in(i - 1)}
        ends   == {i \in 1..Len(s) : in(i) /\ ~in(i + 1)}
    IN  [k \in 1..Cardinality(starts) |-> SubSeq(s, Nth(starts, k), Nth(ends, k))]

\* s.splitlines(): "\r\n" is one boundary, no empty line after the last one.
splitlines(s) ==
    LET crlf(i) == i < Len(s) /\ CharAt(s, i) = "\r" /\ CharAt(s, i + 1) = "\n"
        \* last character of every line boundary
        ends == {i \in 1..Len(s) : CharAt(s, i) \in LineBreaks /\ ~crlf(i)}
        n    == Cardinality(ends)
        from(k) == IF k = 1 THEN 1 ELSE Nth(ends, k - 1) + 1
        to(k)   == IF k = n + 1 THEN Len(s)
                   ELSE IF Nth(ends, k) > 1 /\ crlf(Nth(ends, k) - 1)
                        THEN Nth(ends, k) - 2 ELSE Nth(ends, k) - 1
        last    == IF from(n + 1) <= Len(s) THEN n + 1 ELSE n
    IN  [k \in 1..last |-> SubSeq(s, from(k), to(k))]

\* "\n".join(lines)
RECURSIVE Join(_)
Join(ls) == IF ls = <<>> THEN ""
            ELSE IF Len(ls) = 1 THEN ls[1]
            ELSE ls[1] \o "\n" \o Join(Tail(ls))

Contains(s, c) == \E i \in 1..Len(s) : CharAt(s, i) = c

-----------------------------------------------------------------------------
(* TaxonomyLoader                                                          *)

\* Python None where a dict entry is expected.
None == [none |-> TRUE]

EmptyIndex == [latin_to_row |-> <<>>, common_to_row |-> <<>>]

\* mutant: without a species the family is tried before the genus
LoadLine_family_before_genus(idx, raw) ==
    LET line  == Strip(raw)
        parts == Split(line, ";")
    IN  IF line = "" THEN idx
        ELSE IF Len(parts) < 7 THEN idx
        ELSE
          LET genus           == parts[5]
              species_epithet == parts[6]
              common_name     == parts[7]
              usable == species_epithet # "" \/ genus # "" \/ parts[4] # ""
                          \/ parts[3] # "" \/ parts[2] # ""
              latin_name ==
                  IF species_epithet # "" THEN Lower(genus \o " " \o species_epithet)
                  ELSE IF parts[4] # "" THEN Lower(parts[4])
                  ELSE IF genus # "" THEN Lower(genus)
                  ELSE IF parts[3] # "" THEN Lower(parts[3])
                  ELSE Lower(parts[2])
              entry == [latin |-> latin_name, common |-> common_name, line_parts |-> parts]
          IN  IF ~usable THEN idx
              ELSE [latin_to_row  |-> (latin_name :> entry) @@ idx.latin_to_row,
                    common_to_row |->
                        IF common_name # ""
                        THEN (Lower(common_name) :> entry) @@ idx.common_to_row
                        ELSE idx.common_to_row]

\* One iteration of the `for line in f` loop of load().
LoadLine(idx, raw) ==
    LET line  == Strip(raw)
        parts == Split(line, ";")
    IN  IF line = "" THEN idx
        ELSE IF Len(parts) < 7 THEN idx
        ELSE
          LET genus           == parts[5]
              species_epithet == parts[6]
              common_name     == parts[7]
              usable == species_epithet # "" \/ genus # "" \/ parts[4] # ""
                          \/ parts[3] # "" \/ parts[2] # ""
              latin_name ==
                  IF species_epithet # "" THEN Lower(genus \o " " \o species_epithet)
                  ELSE IF genus # "" THEN Lower(genus)
                  ELSE IF parts[4] # "" THEN Lower(parts[4])
                  ELSE IF parts[3] # "" THEN Lower(parts[3])
                  ELSE Lower(parts[2])
              entry == [latin |-> latin_name, common |-> common_name, line_parts |-> parts]
          IN  IF ~usable THEN idx
              ELSE [latin_to_row  |-> (latin_name :> entry) @@ idx.latin_to_row,
                    common_to_row |->
                        IF common_name # ""
                        THEN (Lower(common_name) :> entry) @@ idx.common_to_row
                        ELSE idx.common_to_row]

RECURSIVE LoadFrom(_, _)
LoadFrom(idx, file) ==
    IF file = <<>> THEN idx ELSE LoadFrom(LoadLine(idx, Head(file)), Tail(file))

\* TaxonomyLoader.load over the lines of the taxonomy file.
load(file) == LoadFrom(EmptyIndex, file)

get_by_latin(latin_name) ==
    LET k == Strip(Lower(latin_name))
    IN  IF k \in DOMAIN latin_to_row THEN latin_to_row[k] ELSE None

get_by_common(common_name) ==
    LET k == Strip(Lower(common_name))
    IN  IF k \in DOMAIN common_to_row THEN common_to_row[k] ELSE None

-----------------------------------------------------------------------------
(* JSON values as json.loads returns them, as far as the code tells them   *)
(* apart: None, str, a number, a list, an object read with .get().         *)

JNull   == [t |-> "null"]
JStr(s) == [t |-> "str", s |-> s]
JNum(n) == [t |-> "num", n |-> n]
JList(xs) == [t |-> "list", xs |-> xs]
\* a JSON object: the keys the response wrote, in its order, and the value
\* of each (json.loads gives a dict, which keeps that order)
Obj(keys, vals) == [t |-> "obj", keys |-> keys, vals |-> vals]
\* a JSON object without keys ({})
EmptyObj == Obj(<<>>, <<>>)

\* `key in d`
HasKey(d, key) == \E i \in 1..Len(d.keys) : d.keys[i] = key

\* d.get(key, default)
get(d, key, default) ==
    IF HasKey(d, key)
    THEN d.vals[CHOOSE i \in 1..Len(d.keys) : d.keys[i] = key]
    ELSE default

\* Python truthiness (`if v:` / `not v`).
Truthy(v) ==
    CASE v.t = "null" -> FALSE
      [] v.t = "str"  -> v.s # ""
      [] v.t = "num"  -> v.n # 0
      [] v.t = "list" -> v.xs # <<>>
      [] v.t = "obj"  -> v.keys # <<>>
      [] OTHER        -> TRUE

Falsy(v) == ~Truthy(v)

\* get_by_hierarchy lines 78-82: `if x: x = x.lower().strip()`.
NormRank(v) == IF Truthy(v) THEN JStr(Strip(Lower(v.s))) ELSE v

\* A truthy rank that is not a str has no .lower(): AttributeError.
RankRaises(v) == Truthy(v) /\ v.t # "str"

NoMatch == [entry |-> None, level |-> "None", exc |-> "none"]
Hit(e, lvl) == [entry |-> e, level |-> lvl, exc |-> "none"]

\* mutant: the rank blocks chained with elif, so a miss at the finest rank
\* supplied ends the search
get_by_hierarchy_elif(tax_class, tax_order, tax_family, tax_genus, tax_species) ==
    IF \E v \in {tax_class, tax_order, tax_family, tax_genus, tax_species} : RankRaises(v)
    THEN [entry |-> None, level |-> "None", exc |-> "AttributeError"]
    ELSE
      LET c == NormRank(tax_class)
          o == NormRank(tax_order)
          f == NormRank(tax_family)
          g == NormRank(tax_genus)
          s == NormRank(tax_species)
          look(v) == get_by_latin(v.s)
      IN  IF Truthy(g) /\ Truthy(s)
          THEN (IF get_by_latin(g.s \o " " \o s.s) # None
                THEN Hit(get_by_latin(g.s \o " " \o s.s), "species") ELSE NoMatch)
          ELSE IF Truthy(g)
          THEN (IF look(g) # None THEN Hit(look(g), "genus") ELSE NoMatch)
          ELSE IF Truthy(f)
          THEN (IF look(f) # None THEN Hit(look(f), "family") ELSE NoMatch)
          ELSE IF Truthy(o)
          THEN (IF look(o) # None THEN Hit(look(o), "order") ELSE NoMatch)
          ELSE IF Truthy(c)
          THEN (IF look(c) # None THEN Hit(look(c), "class") ELSE NoMatch)
          ELSE NoMatch

\* TaxonomyLoader.get_by_hierarchy: every rank block falls through to the
\* next one when its lookup misses.
get_by_hierarchy(tax_class, tax_order, tax_family, tax_genus, tax_species) ==
    IF \E v \in {tax_class, tax_order, tax_family, tax_genus, tax_species} : RankRaises(v)
    THEN [entry |-> None, level |-> "None", exc |-> "AttributeError"]
    ELSE
      LET c == NormRank(tax_class)
          o == NormRank(tax_order)
          f == NormRank(tax_family)
          g == NormRank(tax_genus)
          s == NormRank(tax_species)
          look(v) == get_by_latin(v.s)
      IN  IF Truthy(g) /\ Truthy(s) /\ get_by_latin(g.s \o " " \o s.s) # None
          THEN Hit(get_by_latin(g.s \o " " \o s.s), "species")
          ELSE IF Truthy(g) /\ look(g) # None THEN Hit(look(g), "genus")
          ELSE IF Truthy(f) /\ look(f) # None THEN Hit(look(f), "family")
          ELSE IF Truthy(o) /\ look(o) # None THEN Hit(look(o), "order")
          ELSE IF Truthy(c) /\ look(c) # None THEN Hit(look(c), "class")
          ELSE NoMatch

-----------------------------------------------------------------------------
(* Matcher: pass 1                                                         *)

\* result row without the 'match_level' key
NoLevel == "absent"

Row(latin, common, original_latin, original_common, raw) ==
    [latin |-> latin, common |-> common, original_latin |-> original_latin,
     original_common |-> original_common, raw_input |-> raw, match_level |-> NoLevel]

is_likely_latin(text) == Len(Words(text)) <= 2

StripAll(ps) == [i \in 1..Len(ps) |-> Strip(ps[i])]

\* mutant: an unknown single token is echoed as original_latin
match_single_token_unknown_as_latin(token, line) ==
    IF get_by_latin(token) # None
    THEN Row(get_by_latin(token).latin, get_by_latin(token).common, token, "", line)
    ELSE IF get_by_common(token) # None
    THEN Row(get_by_common(token).latin, get_by_common(token).common, "", token, line)
    ELSE Row("", "", token, "", line)

\* lines 83-103: "Case 1: Single token"
match_single_token(token, line) ==
    IF get_by_latin(token) # None
    THEN Row(get_by_latin(token).latin, get_by_latin(token).common, token, "", line)
    ELSE IF get_by_common(token) # None
    THEN Row(get_by_common(token).latin, get_by_common(token).common, "", token, line)
    ELSE Row("", "", "", token, line)

\* mutant: token0 is taken as Latin whenever it is a known Latin name
match_two_tokens_latin_first(p0, p1, line) ==
    LET row0_l == get_by_latin(p0)
        row0_c == get_by_common(p0)
        row1_l == get_by_latin(p1)
        row1_c == get_by_common(p1)
    IN  IF row0_l # None
        THEN Row(row0_l.latin, row0_l.common, p0, p1, line)
        ELSE IF row1_l # None /\ row0_l = None
        THEN Row(row1_l.latin, row1_l.common, p1, p0, line)
        ELSE IF row0_c # None
        THEN Row(row0_c.latin, row0_c.common,
                 IF ~is_likely_latin(p1) THEN "" ELSE p1, p0, line)
        ELSE IF row1_c # None
        THEN Row(row1_c.latin, row1_c.common,
                 IF is_likely_latin(p0) THEN p0 ELSE "", p1, line)
        ELSE Row("", "", p1, p0, line)

\* lines 106-164: "Case 2: Two tokens (A, B)", the first two of the line
match_two_tokens(p0, p1, line) ==
    LET row0_l == get_by_latin(p0)
        row0_c == get_by_common(p0)
        row1_l == get_by_latin(p1)
        row1_c == get_by_common(p1)
    IN  IF row0_l # None /\ row1_l = None
        THEN Row(row0_l.latin, row0_l.common, p0, p1, line)
        ELSE IF row1_l # None /\ row0_l = None
        THEN Row(row1_l.latin, row1_l.common, p1, p0, line)
        ELSE IF row0_c # None
        THEN Row(row0_c.latin, row0_c.common,
                 IF ~is_likely_latin(p1) THEN "" ELSE p1, p0, line)
        ELSE IF row1_c # None
        THEN Row(row1_c.latin, row1_c.common,
                 IF is_likely_latin(p0) THEN p0 ELSE "", p1, line)
        ELSE Row("", "", p1, p0, line)

match_single_line_exact(line) ==
    LET parts == StripAll(Split(line, ","))
    IN  IF Len(parts) = 1 THEN match_single_token(parts[1], line)
        ELSE match_two_tokens(parts[1], parts[2], line)

-----------------------------------------------------------------------------
(* Matcher: pass 2, one item of the parsed response                        *)

\* an item of the response with its four keys written out, in this order
Item(inp, cands, names, sugg) ==
    Obj(<<"input_text", "candidates", "candidate_latin_names", "suggested_common">>,
        <<inp, cands, names, sugg>>)

\* a candidate with its five keys written out, in this order
Cand(c, o, f, g, s) ==
    Obj(<<"class", "order", "family", "genus", "species">>, <<c, o, f, g, s>>)

\* lines 256-257: the dict the comprehension builds for one name
LegacyDict(genus, species) == Obj(<<"genus", "species">>, <<genus, species>>)

\* lines 255-258: one element of the rebuilt candidate list, or the exception
\* the list comprehension raises on it.
\* `' ' in name` is a substring test on a str and a membership test on a
\* list (its elements) or an object (its keys); on None and on a number it
\* raises TypeError.  Where the test is true, name.split() follows: a list
\* and an object have none (AttributeError), a str of blanks splits into
\* nothing (IndexError).  Where it is false the name itself, whatever it is,
\* becomes the genus.
LegacyCandidate(name) ==
    CASE name.t = "str" ->
           IF Contains(name.s, " ")
           THEN IF Words(name.s) = <<>> THEN [exc |-> "IndexError", cand |-> JNull]
                ELSE [exc |-> "none",
                      cand |-> LegacyDict(JStr(Words(name.s)[1]),
                                          IF Len(Words(name.s)) > 1
                                          THEN JStr(Words(name.s)[2]) ELSE JNull)]
           ELSE [exc |-> "none", cand |-> LegacyDict(name, JNull)]
      [] name.t = "list" ->
           IF \E i \in 1..Len(name.xs) : name.xs[i].t = "str" /\ name.xs[i].s = " "
           THEN [exc |-> "AttributeError", cand |-> JNull]
           ELSE [exc |-> "none", cand |-> LegacyDict(name, JNull)]
      [] name.t = "obj" ->
           IF HasKey(name, " ")
           THEN [exc |-> "AttributeError", cand |-> JNull]
           ELSE [exc |-> "none", cand |-> LegacyDict(name, JNull)]
      [] OTHER -> [exc |-> "TypeError", cand |-> JNull]

\* what `for x in v` visits: the elements of a list, the characters of a
\* str, the keys of an object in the order written; None and numbers raise
\* TypeError.
Iterable(v) == v.t \in {"list", "str", "obj"}
Elements(v) ==
    CASE v.t = "list" -> v.xs
      [] v.t = "str"  -> [i \in 1..Len(v.s) |-> JStr(CharAt(v.s, i))]
      [] v.t = "obj"  -> [i \in 1..Len(v.keys) |-> JStr(v.keys[i])]
      [] OTHER        -> <<>>

\* lines 252-258: the candidate list of an item.
CandidatesOf(item) ==
    IF Falsy(get(item, "candidates", JList(<<>>)))
       /\ ~Falsy(get(item, "candidate_latin_names", JNull))
    THEN IF ~Iterable(get(item, "candidate_latin_names", JList(<<>>)))
         THEN [exc |-> "TypeError", cands |-> JNull]
         ELSE LET names == Elements(get(item, "candidate_latin_names", JList(<<>>)))
                  built == [i \in 1..Len(names) |-> LegacyCandidate(names[i])]
              IN  IF \E i \in 1..Len(built) : built[i].exc # "none"
                  THEN [exc |-> built[CHOOSE i \in 1..Len(built) :
                                        /\ built[i].exc # "none"
                                        /\ \A j \in 1..(i-1) : built[j].exc = "none"].exc,
                        cands |-> JNull]
                  ELSE [exc |-> "none",
                        cands |-> JList([i \in 1..Len(built) |-> built[i].cand])]
    ELSE [exc |-> "none", cands |-> get(item, "candidates", JList(<<>>))]

\* mutant: the loop does not stop at the first hit, a later hit replaces it
RECURSIVE TryCandidates_last_hit(_)
TryCandidates_last_hit(cs) ==
    IF cs = <<>> THEN NoMatch
    ELSE LET candidate == Head(cs)
             later     == TryCandidates_last_hit(Tail(cs))
         IN  IF Falsy(candidate) THEN later
             ELSE IF candidate.t # "obj"
             THEN [entry |-> None, level |-> "None", exc |-> "AttributeError"]
             ELSE LET r == get_by_hierarchy(get(candidate, "class", JNull),
                                            get(candidate, "order", JNull),
                                            get(candidate, "family", JNull),
                                            get(candidate, "genus", JNull),
                                            get(candidate, "species", JNull))
                  IN  IF r.exc # "none" THEN r
                      ELSE IF later.exc # "none" \/ later.entry # None THEN later
                      ELSE r

\* lines 267-282: first candidate for which get_by_hierarchy returns an entry.
RECURSIVE TryCandidates(_)
TryCandidates(cs) ==
    IF cs = <<>> THEN NoMatch
    ELSE LET candidate == Head(cs)
         IN  IF Falsy(candidate) THEN TryCandidates(Tail(cs))
             ELSE IF candidate.t # "obj"
             THEN [entry |-> None, level |-> "None", exc |-> "AttributeError"]
             ELSE LET r == get_by_hierarchy(get(candidate, "class", JNull),
                                            get(candidate, "order", JNull),
                                            get(candidate, "family", JNull),
                                            get(candidate, "genus", JNull),
                                            get(candidate, "species", JNull))
                  IN  IF r.exc # "none" \/ r.entry # None THEN r
                      ELSE TryCandidates(Tail(cs))

\* mutant: the row takes the common name as the model spelled it
CommonFallback_model_spelling(item, m) ==
    IF m.entry # None \/ Falsy(get(item, "suggested_common", JNull)) THEN m
    ELSE IF get(item, "suggested_common", JNull).t # "str"
    THEN [entry |-> None, level |-> "None", exc |-> "AttributeError"]
    ELSE IF get_by_common(get(item, "suggested_common", JNull).s) # None
    THEN Hit([get_by_common(get(item, "suggested_common", JNull).s)
                 EXCEPT !.common = get(item, "suggested_common", JNull).s],
             "common_name_fallback")
    ELSE m

\* lines 285-290: the suggested common name, tried only without a match.
CommonFallback(item, m) ==
    IF m.entry # None THEN m
    ELSE LET s_common_gemini == get(item, "suggested_common", JNull)
         IN  IF Falsy(s_common_gemini) THEN m
             ELSE IF s_common_gemini.t # "str"
             THEN [entry |-> None, level |-> "None", exc |-> "AttributeError"]
             ELSE IF get_by_common(s_common_gemini.s) # None
             THEN Hit(get_by_common(s_common_gemini.s), "common_name_fallback")
             ELSE m

\* mutant: the first row with that raw_input, resolved or not
WriteBackTarget_resolved_too(res, inp) ==
    IF inp.t # "str" THEN 0
    ELSE IF \E k \in 1..Len(res) : res[k].raw_input = inp.s
    THEN CHOOSE k \in 1..Len(res) :
            /\ res[k].raw_input = inp.s
            /\ \A j \in 1..(k-1) : res[j].raw_input # inp.s
    ELSE 0

\* lines 294-295: the result row the write-back loop stops at (0: none).
WriteBackTarget(res, inp) ==
    IF inp.t # "str" THEN 0
    ELSE IF \E k \in 1..Len(res) : res[k].raw_input = inp.s /\ res[k].latin = ""
    THEN CHOOSE k \in 1..Len(res) :
            /\ res[k].raw_input = inp.s /\ res[k].latin = ""
            /\ \A j \in 1..(k-1) : ~(res[j].raw_input = inp.s /\ res[j].latin = "")
    ELSE 0

\* lines 296-299
WriteBack(res, k, m) ==
    IF k = 0 \/ m.entry = None THEN res
    ELSE [res EXCEPT ![k].latin = m.entry.latin,
                     ![k].common = m.entry.common,
                     ![k].match_level = m.level]

\* lines 250-300: the body of `for item in data` for one item; exc names the
\* exception that leaves the loop, "none" when the iteration completes.
ApplyItem(res, item) ==
    IF item.t # "obj" THEN [results |-> res, exc |-> "AttributeError"]
    ELSE LET cl == CandidatesOf(item)
         IN  IF cl.exc # "none" THEN [results |-> res, exc |-> cl.exc]
             ELSE IF Falsy(get(item, "input_text", JNull))
             THEN [results |-> res, exc |-> "none"]
             ELSE IF ~Iterable(cl.cands) THEN [results |-> res, exc |-> "TypeError"]
             ELSE LET h == TryCandidates(Elements(cl.cands))
                  IN  IF h.exc # "none" THEN [results |-> res, exc |-> h.exc]
                      ELSE LET m == CommonFallback(item, h)
                           IN  IF m.exc # "none" THEN [results |-> res, exc |-> m.exc]
                               ELSE [results |-> WriteBack(res,
                                                   WriteBackTarget(res, get(item, "input_text", JNull)), m),
                                     exc |-> "none"]

-----------------------------------------------------------------------------
(* Matcher: pass 3                                                         *)

HigherLevels == {"genus", "family", "order", "class"}

\* lines 317-325: higher_level_matches[latin], the indices grouped under latin
higher_level_matches(res, latin) ==
    {i \in 1..Len(res) : res[i].match_level \in HigherLevels
                         /\ res[i].latin # "" /\ res[i].latin = latin}

\* mutant: the first member of an ambiguous group is kept
resolve_ambiguous_matches_keep_first(res) ==
    [i \in 1..Len(res) |->
        IF /\ res[i].match_level \in HigherLevels
           /\ res[i].latin # ""
           /\ \E j \in higher_level_matches(res, res[i].latin) : j < i
        THEN [res[i] EXCEPT !.latin = "", !.common = "", !.match_level = "ambiguous"]
        ELSE res[i]]

\* mutant: rows are grouped by latin whatever their match_level
resolve_ambiguous_matches_any_level(res) ==
    [i \in 1..Len(res) |->
        IF /\ res[i].match_level # NoLevel
           /\ res[i].latin # ""
           /\ \E j \in 1..Len(res) :
                 j # i /\ res[j].match_level # NoLevel /\ res[j].latin = res[i].latin
        THEN [res[i] EXCEPT !.latin = "", !.common = "", !.match_level = "ambiguous"]
        ELSE res[i]]

\* mutant: a group is cleared only when it has more than two members
resolve_ambiguous_matches_more_than_two(res) ==
    [i \in 1..Len(res) |->
        IF /\ res[i].match_level \in HigherLevels
           /\ res[i].latin # ""
           /\ Cardinality(higher_level_matches(res, res[i].latin)) > 2
        THEN [res[i] EXCEPT !.latin = "", !.common = "", !.match_level = "ambiguous"]
        ELSE res[i]]

resolve_ambiguous_matches(res) ==
    [i \in 1..Len(res) |->
        IF /\ res[i].match_level \in HigherLevels
           /\ res[i].latin # ""
           /\ Cardinality(higher_level_matches(res, res[i].latin)) > 1
        THEN [res[i] EXCEPT !.latin = "", !.common = "", !.match_level = "ambiguous"]
        ELSE res[i]]

-----------------------------------------------------------------------------
(* Bounds and the inputs the specifications draw from                      *)

MaxLines == 3    \* lines typed into one input_text

\* taxonomy files: guid;class;order;family;genus;species;common
TaxonomyFileA ==
    << "g1;Mammalia;Carnivora;Canidae;Vulpes;vulpes;Red Fox",
       "g2;Mammalia;Carnivora;Canidae;Vulpes;;Fox",
       "g3;Mammalia;Carnivora;Canidae;;;Canid",
       "g4;Mammalia;Carnivora;;;;Carnivore",
       "g5;Mammalia;;;;;Mammal",
       "g6;Mammalia;Carnivora;Felidae;Lynx;rufus;Bobcat",
       "g7;Mammalia;Carnivora;Felidae;Lynx;rufus;Bay Lynx",
       "",
       "g8;too;short",
       "g9;;;;;;Nameless" >>

TaxonomyFileB ==
    << "g1;Mammalia;Carnivora;Canidae;Vulpes;vulpes;Red Fox",
       "g3;Mammalia;Carnivora;Canidae;;;Canid",
       "g6;Mammalia;Carnivora;Felidae;Lynx;rufus;Bobcat" >>

TaxonomyFiles == {TaxonomyFileA, TaxonomyFileB}

\* lines a caller types.  The blank one holds U+000B between its two blanks,
\* a line boundary next to which only blank lines arise; the last one starts
\* with U+001F and has U+001F before its comma, whitespace that is no boundary.
LinePool ==
    { "fennec", "silvertip", "  ", " Red Fox, Vulpes fulva" }

TypedInputs == UNION { [1..n -> LinePool] : n \in 0..MaxLines }

Mammalia  == JStr("Mammalia")
Carnivora == JStr("Carnivora")
Canidae   == JStr("Canidae")

\* elements the parsed response may hold, in any number and order
ItemPool ==
    { \* species miss, coarser ranks of the same tuple in the table
      Item(JStr("fennec"),
           JList(<<Cand(Mammalia, Carnivora, Canidae, JStr("Vulpes"), JStr("zerda"))>>),
           JNull, JStr("Fennec Fox")),
      Item(JStr("silvertip"),
           JList(<<Cand(Mammalia, Carnivora, Canidae, JStr("Vulpes"), JStr("macrotis"))>>),
           JNull, JStr("Kit Fox")),
      \* species hit, ranks needing normalisation
      Item(JStr("silvertip"),
           JList(<<Cand(JNull, JNull, JNull, JStr(" VULPES "), JStr("Vulpes"))>>),
           JNull, JNull),
      \* neither 'candidates' nor 'candidate_latin_names' written, suggested
      \* common name in the table
      Obj(<<"suggested_common", "input_text">>, <<JStr("red fox"), JStr("fennec")>>),
      \* names a line pass 1 resolved
      \* (U+001F before the comma, as in the line)
      Item(JStr("Red Fox, Vulpes fulva"),
           JList(<<Cand(JNull, JNull, JNull, JStr("Lynx"), JStr("rufus"))>>),
           JNull, JStr("Bobcat")),
      \* input_text differing from the raw line in case only
      Item(JStr("Fennec"),
           JList(<<Cand(JNull, JNull, JNull, JStr("Lynx"), JStr("rufus"))>>),
           JNull, JNull),
      \* first candidate unknown, second one empty, third one found; the
      \* suggested common name is in the table too
      Item(JStr("fennec"),
           JList(<<Cand(JNull, JNull, JNull, JStr("Urocyon"), JStr("littoralis")),
                   EmptyObj,
                   Cand(Mammalia, Carnivora, Canidae, JStr("Vulpes"), JStr("zerda"))>>),
           JNull, JStr("Red Fox")),
      \* legacy shape
      Item(JStr("silvertip"), JList(<<>>), JList(<<JStr("Vulpes  vulpes")>>), JNull),
      \* no candidates, suggested common name that of a family row
      Item(JStr("silvertip"), JList(<<>>), JNull, JStr("canid ")),
      \* legacy shape, a name that is an empty list: a candidate without ranks
      Item(JStr("fennec"), JList(<<>>), JList(<<JList(<<>>)>>), JStr("red fox")),
      \* legacy shape, the names an object: the keys it wrote become the
      \* genera, in its order
      Item(JStr("silvertip"), JList(<<>>),
           Obj(<<"species", "Vulpes">>, <<JStr("vulpes"), JNull>>), JStr("canid ")),
      \* a candidate with the keys of an item: every rank reads as None
      Item(JStr("fennec"),
           JList(<<Item(JStr("fennec"), JList(<<>>), JNull, JNull)>>),
           JNull, JStr("red fox")),
      \* malformed: an element that is no object, a rank that is no string, a
      \* legacy name that is a list with something in it
      JNum(5),
      Item(JStr("fennec"),
           JList(<<Cand(JNull, JNull, JNull, JNum(7), JNull)>>), JNull, JNull),
      Item(JStr("fennec"), JList(<<>>), JList(<<JList(<<JStr("Vulpes")>>)>>), JNull) }

\* parsed responses that are not a list
NonListData ==
    { JNull, JNum(5), JStr("no idea"), EmptyObj,
      Item(JStr("fennec"), JList(<<>>), JNull, JStr("red fox")) }

-----------------------------------------------------------------------------
(* process_input as a state machine                                        *)

\* the classes the try block of lines 233-300 is left with in the model: those
\* the client raises (the call, line 234), response.text (line 236), the
\* fence stripping on a text that is None (line 238), json.loads (line 244)
\* and the loop over the parsed data; each derives from Exception
ExceptionClasses ==
    {"AttributeError", "TypeError", "IndexError", "ValueError", "JSONDecodeError",
     "APIError", "KeyError", "RuntimeError", "UnicodeDecodeError", "RecursionError"}

\* the classes of Python that derive from BaseException and not from Exception
NotExceptions ==
    {"BaseException", "KeyboardInterrupt", "SystemExit", "GeneratorExit",
     "CancelledError", "BaseExceptionGroup"}

\* mutant: only narrower exception classes are caught
Caught_value_errors_only(exc) == exc \in {"ValueError", "JSONDecodeError"}

\* line 302: `except Exception` catches every class deriving from Exception
Caught(exc) == exc \notin NotExceptions

\* mutant: a line without an exact match gets no placeholder row
RECURSIVE Pass1Rows_matched_only(_)
Pass1Rows_matched_only(lines) ==
    IF lines = <<>> THEN <<>>
    ELSE LET line == Strip(Head(lines))
         IN  IF line = "" \/ match_single_line_exact(line).latin = ""
             THEN Pass1Rows_matched_only(Tail(lines))
             ELSE <<match_single_line_exact(line)>> \o Pass1Rows_matched_only(Tail(lines))

\* lines 40-58: the rows of pass 1, one per non-blank stripped line
RECURSIVE Pass1Rows(_)
Pass1Rows(lines) ==
    IF lines = <<>> THEN <<>>
    ELSE LET line == Strip(Head(lines))
         IN  IF line = "" THEN Pass1Rows(Tail(lines))
             ELSE <<match_single_line_exact(line)>> \o Pass1Rows(Tail(lines))

\* lines 52-58: the rows queued for the model
UnknownOf(rows) ==
    SelectSeq([k \in 1..Len(rows) |-> [res |-> k, line |-> rows[k].raw_input,
                                       latin |-> rows[k].latin]],
              LAMBDA u : u.latin = "")

\* a stub that has answered nothing yet
NoStub == [built |-> FALSE, answered |-> <<>>]

NoQuery == [class |-> JNull, order |-> JNull, family |-> JNull,
            genus |-> JNull, species |-> JNull]

\* the variables of the other specifications, at rest
Unused ==
    /\ stub = NoStub
    /\ first_results = <<>>
    /\ invocation = 0
    /\ threads = <<>>
    /\ file_read = <<>>
    /\ query = ""
    /\ found = None
    /\ next_item = JNull

Init ==
    /\ \E file \in TaxonomyFiles :
          /\ latin_to_row = load(file).latin_to_row
          /\ common_to_row = load(file).common_to_row
    /\ model \in BOOLEAN
    /\ user_api_key \in {"", "caller-key"}
    /\ typed_lines \in TypedInputs
    /\ input_text = Join(typed_lines)
    /\ results = <<>>
    /\ unknown_lines = <<>>
    /\ pc = "pass1"
    /\ llm_calls = 0
    /\ outcome = "running"
    /\ caught = "none"
    /\ hq = NoQuery
    /\ hres = NoMatch
    /\ Unused

Fixed == <<latin_to_row, common_to_row, model, typed_lines, input_text, user_api_key,
           hq, hres, stub, first_results, invocation, threads, file_read, query, found, next_item>>

\* process_input lines 40-62
Pass1 ==
    /\ pc = "pass1"
    /\ results' = Pass1Rows(splitlines(input_text))
    /\ unknown_lines' = UnknownOf(results')
    /\ pc' = IF unknown_lines' # <<>> /\ (model \/ user_api_key # "")
             THEN "pass2" ELSE "pass3"
    /\ UNCHANGED <<llm_calls, outcome, caught, Fixed>>

\* mutant: a failed batch is sent again
Raise_retry(exc) == pc' = "pass2" /\ outcome' = outcome /\ caught' = exc

\* what leaving the try block with exception exc does (lines 302-304)
Raise(exc) ==
    IF Caught(exc)
    THEN pc' = "pass3" /\ outcome' = outcome /\ caught' = exc
    ELSE pc' = "done" /\ outcome' = "raised" /\ caught' = caught

\* the loop or the function ends without an exception
Proceed(next) == pc' = next /\ outcome' = outcome /\ caught' = caught

\* the model the call at line 234 goes to: the caller's when its construction
\* (lines 186-196) succeeds, else the process-wide one
ModelToUse(built) == (user_api_key # "" /\ built) \/ model

\* batch_process_with_gemini lines 184-205: no usable model, return
NoModel ==
    /\ pc = "pass2"
    /\ \E built \in BOOLEAN : ~ModelToUse(built)
    /\ Proceed("pass3")
    /\ UNCHANGED <<results, unknown_lines, llm_calls, Fixed>>

\* what lines 234-244 raise: the client (APIError, KeyError, RuntimeError,
\* UnicodeDecodeError), response.text of a blocked response (ValueError), the
\* fence stripping when the text is None (TypeError), json.loads
\* (JSONDecodeError, RecursionError on deep nesting)
CallErrors ==
    {"APIError", "KeyError", "RuntimeError", "UnicodeDecodeError", "ValueError",
     "TypeError", "JSONDecodeError", "RecursionError"}

\* lines 234-244: the call or the parse raises
CallFails ==
    /\ pc = "pass2"
    /\ \E built \in BOOLEAN : ModelToUse(built)
    /\ llm_calls' = llm_calls + 1
    /\ \E exc \in CallErrors : Raise(exc)
    /\ UNCHANGED <<results, unknown_lines, Fixed>>

\* lines 234-250: the response parses to something that is not a list
CallNonList ==
    /\ pc = "pass2"
    /\ \E built \in BOOLEAN : ModelToUse(built)
    /\ llm_calls' = llm_calls + 1
    /\ \E d \in NonListData :
          IF ~Iterable(d) THEN Raise("TypeError")
          ELSE IF Elements(d) = <<>> THEN Proceed("pass3")
          ELSE Raise(ApplyItem(results, Elements(d)[1]).exc)
    /\ UNCHANGED <<results, unknown_lines, Fixed>>

\* lines 234-250: the response parses to a list, of any length; the loop
\* over it starts
CallList ==
    /\ pc = "pass2"
    /\ \E built \in BOOLEAN : ModelToUse(built)
    /\ llm_calls' = llm_calls + 1
    /\ Proceed("items")
    /\ UNCHANGED <<results, unknown_lines, Fixed>>

\* lines 250-304: one iteration of `for item in data`
ProcessItem ==
    /\ pc = "items"
    /\ \E item \in ItemPool :
          LET r == ApplyItem(results, item)
          IN  /\ results' = r.results
              /\ IF r.exc # "none" THEN Raise(r.exc) ELSE Proceed("items")
    /\ UNCHANGED <<unknown_lines, llm_calls, Fixed>>

\* line 250: the list has no further element
LoopEnds ==
    /\ pc = "items"
    /\ Proceed("pass3")
    /\ UNCHANGED <<results, unknown_lines, llm_calls, Fixed>>

\* process_input lines 65-67
Pass3 ==
    /\ pc = "pass3"
    /\ results' = resolve_ambiguous_matches(results)
    /\ pc' = "done"
    /\ outcome' = "returned"
    /\ UNCHANGED <<unknown_lines, llm_calls, caught, Fixed>>

Next ==
    Pass1 \/ NoModel \/ CallFails \/ CallNonList \/ CallList \/ ProcessItem \/ LoopEnds
        \/ Pass3

Spec == Init /\ [][Next]_vars

-----------------------------------------------------------------------------
(* get_by_hierarchy on its own: every rank tuple against every index       *)

RankTuples ==
    [class   : {JNull, JStr("Mammalia")},
     order   : {JNull, JStr("carnivora ")},
     family  : {JNull, JStr("Canidae"), JStr("Ursidae")},
     genus   : {JNull, JStr(""), JStr(" Vulpes"), JStr("Lynx"), JStr("Ursus")},
     species : {JNull, JStr(" "), JStr("VULPES"), JStr("zerda")}]

Pending == [entry |-> None, level |-> "pending", exc |-> "none"]

InitH ==
    /\ \E file \in TaxonomyFiles :
          /\ latin_to_row = load(file).latin_to_row
          /\ common_to_row = load(file).common_to_row
    /\ hq \in RankTuples
    /\ hres = Pending
    /\ pc = "hierarchy"
    /\ model = FALSE
    /\ user_api_key = ""
    /\ typed_lines = <<>>
    /\ input_text = ""
    /\ results = <<>>
    /\ unknown_lines = <<>>
    /\ llm_calls = 0
    /\ outcome = "running"
    /\ caught = "none"
    /\ Unused

Resolve ==
    /\ pc = "hierarchy"
    /\ hres' = get_by_hierarchy(hq.class, hq.order, hq.family, hq.genus, hq.species)
    /\ pc' = "resolved"
    /\ UNCHANGED <<latin_to_row, common_to_row, model, typed_lines, input_text,
                   user_api_key, results, unknown_lines, llm_calls, outcome, caught, hq,
                   stub, first_results, invocation, threads, file_read, query, found, next_item>>

NextH == Resolve

SpecH == InitH /\ [][NextH]_vars

-----------------------------------------------------------------------------
(* process_input invoked several times on one Matcher, as app.py does from *)
(* the threads of its server, with a stubbed, deterministic LLM            *)
(* capability: the same prompt gets the same response.  An invocation      *)
(* blocks in generate_content (line 234); others start and finish          *)
(* meanwhile.                                                              *)

MaxInvocations == 2

\* what generate_content, response.text and json.loads give for a prompt:
\* an exception, or the parsed data
Raises(exc) == [exc |-> exc, data |-> JNull]
Parsed(d)   == [exc |-> "none", data |-> d]

PairPool ==
    { Item(JStr("fennec"),
           JList(<<Cand(Mammalia, Carnivora, Canidae, JStr("Vulpes"), JStr("zerda"))>>),
           JNull, JStr("Fennec Fox")),
      Item(JStr("silvertip"),
           JList(<<Cand(Mammalia, Carnivora, Canidae, JStr("Vulpes"), JStr("macrotis"))>>),
           JNull, JStr("Kit Fox")),
      JNum(5) }

\* the stub's answers: a failed call, data that is no list, lists of up to
\* two elements
StubResponses ==
    {Raises("APIError"), Parsed(JNum(5)), Parsed(JList(<<>>))}
      \cup {Parsed(JList(<<i>>)) : i \in PairPool}
      \cup {Parsed(JList(<<p[1], p[2]>>)) :
               p \in {q \in PairPool \X PairPool : q[1] # q[2]}}

\* lines 250-300: `for item in data` over the whole list, up to the first
\* exception
RECURSIVE ApplyItems(_, _)
RECURSIVE AfterItem(_, _)
ApplyItems(res, items) ==
    IF items = <<>> THEN [results |-> res, exc |-> "none"]
    ELSE AfterItem(ApplyItem(res, Head(items)), Tail(items))

\* r is what the iteration just finished left; the loop goes on without an
\* exception only
AfterItem(r, rest) == IF r.exc # "none" THEN r ELSE ApplyItems(r.results, rest)

\* the location argument of process_input; "" stands for None and '', both
\* falsy at line 209
Locations == {"", "Kenya"}

\* lines 207-231: the lines of the prompt that depend on the arguments, in
\* their order: the context line when location is truthy (lines 209-210) and
\* one line per unknown item (lines 227-229); the other lines are fixed text
PromptOf(unknown, location) ==
    (IF location # ""
     THEN <<"Context: The species are observed in " \o location \o ".">>
     ELSE <<>>)
      \o [k \in 1..Len(unknown) |-> "- " \o unknown[k].line]

\* lines 180-304 in one piece: the rows after pass 2 and the exception the
\* try block was left with
batch_process_with_gemini(rows, built, response) ==
    IF ~ModelToUse(built) THEN [results |-> rows, exc |-> "none"]
    ELSE IF response.exc # "none" THEN [results |-> rows, exc |-> response.exc]
    ELSE IF ~Iterable(response.data) THEN [results |-> rows, exc |-> "TypeError"]
    ELSE ApplyItems(rows, Elements(response.data))

\* mutant: the rows of the invocation that finished last are kept and added to
FirstPass_keeps_results(text) == results \o Pass1Rows(splitlines(text))

\* lines 40-58: results starts empty (line 41) and gets the rows of pass 1
FirstPass(text) == Pass1Rows(splitlines(text))

\* line 61 and lines 184-205: pass 2 runs and reaches generate_content
Asked(unknown) ==
    unknown # <<>> /\ (model \/ user_api_key # "") /\ ModelToUse(stub.built)

\* lines 64-67, or the exception of pass 2 reaching the caller; r is what
\* pass 2 left
ThirdPass(r) ==
    IF r.exc # "none" /\ ~Caught(r.exc)
    THEN [results |-> r.results, outcome |-> "raised", caught |-> "none"]
    ELSE [results |-> resolve_ambiguous_matches(r.results), outcome |-> "returned",
          caught |-> r.exc]

\* input texts: empty, one unknown line, one line pass 1 resolves, two
\* unknown lines, these around a resolved one, one unknown line twice
RepeatedInputs ==
    { <<>>,
      <<"fennec">>,
      <<" Red Fox, Vulpes fulva">>,
      <<"fennec", "silvertip">>,
      <<"fennec", " Red Fox, Vulpes fulva", "silvertip">>,
      <<"silvertip", "silvertip">> }

\* an invocation that has not arrived
Idle == [pc |-> "idle", location |-> "", results |-> <<>>, caught |-> "none"]

InitI ==
    /\ \E file \in TaxonomyFiles :
          /\ latin_to_row = load(file).latin_to_row
          /\ common_to_row = load(file).common_to_row
    /\ model \in BOOLEAN
    /\ user_api_key \in {"", "caller-key"}
    /\ typed_lines \in RepeatedInputs
    /\ input_text = Join(typed_lines)
    /\ stub \in {[built |-> b, answered |-> <<>>] : b \in BOOLEAN}
    /\ threads = [i \in 1..MaxInvocations |-> Idle]
    /\ results = <<>>
    /\ first_results = <<>>
    /\ invocation = 0
    /\ unknown_lines = <<>>
    /\ pc = "idle"
    /\ llm_calls = 0
    /\ outcome = "running"
    /\ caught = "none"
    /\ hq = NoQuery
    /\ hres = NoMatch
    /\ file_read = <<>>
    /\ query = ""
    /\ found = None
    /\ next_item = JNull

\* invocations are numbered as they arrive
Arrives(i) ==
    /\ threads[i].pc = "idle"
    /\ \A j \in 1..(i - 1) : threads[j].pc # "idle"

\* invocation i leaves process_input with r (line 67, or the exception)
Finish(i, location, unknown, r) ==
    /\ threads' = [threads EXCEPT ![i] = [pc |-> r.outcome, location |-> location,
                                          results |-> r.results, caught |-> r.caught]]
    /\ results' = r.results
    /\ outcome' = r.outcome
    /\ caught' = r.caught
    /\ unknown_lines' = unknown
    /\ first_results' = IF invocation = 0 THEN r.results ELSE first_results
    /\ invocation' = invocation + 1

\* lines 40-67 of invocation i when pass 2 makes no call (line 61 false, or no
\* usable model at lines 184-205): nothing in it waits, it runs to its end
InvokeLocal(i) ==
    /\ Arrives(i)
    /\ \E location \in Locations :
          \E rows \in {FirstPass(input_text)} :
             /\ ~Asked(UnknownOf(rows))
             /\ \E r \in {ThirdPass([results |-> rows, exc |-> "none"])} :
                   Finish(i, location, UnknownOf(rows), r)
    /\ UNCHANGED <<latin_to_row, common_to_row, model, typed_lines, input_text,
                   user_api_key, pc, llm_calls, stub, hq, hres, file_read, query,
                   found, next_item>>

\* lines 40-234 of invocation i: pass 1, the prompt, and the call of
\* generate_content, in which the invocation waits
InvokeCall(i) ==
    /\ Arrives(i)
    /\ \E location \in Locations :
          \E rows \in {FirstPass(input_text)} :
             /\ Asked(UnknownOf(rows))
             /\ threads' = [threads EXCEPT ![i] = [pc |-> "waiting",
                                                   location |-> location,
                                                   results |-> rows, caught |-> "none"]]
    /\ llm_calls' = llm_calls + 1
    /\ UNCHANGED <<latin_to_row, common_to_row, model, typed_lines, input_text,
                   user_api_key, results, unknown_lines, pc, outcome, caught, stub,
                   first_results, invocation, hq, hres, file_read, query, found,
                   next_item>>

\* lines 234-304 and 64-67 of invocation i: the call returns or raises, the
\* rest of pass 2 and pass 3 run.  The stub answers a prompt it has answered
\* before as it did then.
Respond(i) ==
    /\ threads[i].pc = "waiting"
    /\ \E unknown \in {UnknownOf(threads[i].results)} :
          \E prompt \in {PromptOf(unknown, threads[i].location)} :
             \E response \in (IF prompt \in DOMAIN stub.answered
                              THEN {stub.answered[prompt]} ELSE StubResponses) :
                \E r \in {ThirdPass(batch_process_with_gemini(threads[i].results,
                                                              stub.built, response))} :
                   /\ stub' = [stub EXCEPT !.answered = (prompt :> response) @@ @]
                   /\ Finish(i, threads[i].location, unknown, r)
    /\ UNCHANGED <<latin_to_row, common_to_row, model, typed_lines, input_text,
                   user_api_key, pc, llm_calls, hq, hres, file_read, query, found,
                   next_item>>

NextI == \E i \in 1..MaxInvocations : InvokeLocal(i) \/ InvokeCall(i) \/ Respond(i)

SpecI == InitI /\ [][NextI]_vars

-----------------------------------------------------------------------------
(* TaxonomyLoader on its own: load() line by line, then one lookup         *)

MaxRows == 2

\* lines a taxonomy file can hold (g10 ends with U+001F, the second query
\* below starts with U+001F and ends with U+000B): the five ranks a row can stand for, a row
\* without any rank, a short row, a row with blanks around a field, a
\* duplicate with more than 7 fields, a species without genus, a blank line
RowPool ==
    { "g1;Mammalia;Carnivora;Canidae;Vulpes;vulpes;Red Fox",
      "g2;Mammalia;Carnivora;Canidae;Vulpes;;Fox",
      "g3;Mammalia;Carnivora;Canidae;;;Canid",
      "g4;Mammalia;Carnivora;;;;Carnivore",
      "g5;Mammalia;;;;;Mammal",
      "g9;;;;;;Nameless",
      "g8;too;short",
      "  g10;Mammalia;Carnivora;Canidae; Vulpes ;; Swift Fox",
      "g11;Mammalia;Carnivora;Canidae;Vulpes;vulpes;red fox;extra",
      "g12;Mammalia;Carnivora;Canidae;;zerda;",
      " \t" }

QueryPool ==
    { "vulpes", "Vulpes", "  VULPES vulpes ", "RED FOX", "swift fox", "Canid ", "zerda",
      "" }

InitL ==
    /\ latin_to_row = EmptyIndex.latin_to_row
    /\ common_to_row = EmptyIndex.common_to_row
    /\ file_read = <<>>
    /\ query = ""
    /\ found = None
    /\ next_item = JNull
    /\ pc = "loading"
    /\ model = FALSE
    /\ user_api_key = ""
    /\ typed_lines = <<>>
    /\ input_text = ""
    /\ results = <<>>
    /\ unknown_lines = <<>>
    /\ llm_calls = 0
    /\ outcome = "running"
    /\ caught = "none"
    /\ hq = NoQuery
    /\ hres = NoMatch
    /\ stub = NoStub
    /\ first_results = <<>>
    /\ invocation = 0
    /\ threads = <<>>

Rest == <<model, typed_lines, input_text, user_api_key, results, unknown_lines,
          llm_calls, outcome, caught, hq, hres, stub, first_results, invocation, threads,
          next_item>>

\* taxonomy.py lines 20-63: one iteration of `for line in f`
ReadLine ==
    /\ pc = "loading"
    /\ Len(file_read) < MaxRows
    /\ \E raw \in RowPool :
          LET idx == LoadLine([latin_to_row |-> latin_to_row,
                               common_to_row |-> common_to_row], raw)
          IN  /\ latin_to_row' = idx.latin_to_row
              /\ common_to_row' = idx.common_to_row
              /\ file_read' = Append(file_read, raw)
    /\ UNCHANGED <<pc, query, found, Rest>>

\* line 20: the file has no further line
EndOfFile ==
    /\ pc = "loading"
    /\ pc' = "loaded"
    /\ UNCHANGED <<latin_to_row, common_to_row, file_read, query, found, Rest>>

\* lines 65-66
LookupLatin ==
    /\ pc = "loaded"
    /\ \E q \in QueryPool : query' = q /\ found' = get_by_latin(q)
    /\ pc' = "latin"
    /\ UNCHANGED <<latin_to_row, common_to_row, file_read, Rest>>

\* lines 68-69
LookupCommon ==
    /\ pc = "loaded"
    /\ \E q \in QueryPool : query' = q /\ found' = get_by_common(q)
    /\ pc' = "common"
    /\ UNCHANGED <<latin_to_row, common_to_row, file_read, Rest>>

NextL == ReadLine \/ EndOfFile \/ LookupLatin \/ LookupCommon

SpecL == InitL /\ [][NextL]_vars

-----------------------------------------------------------------------------
(* Pass 1 on its own: one comma-separated line against an index            *)

MaxTokens == 3

\* an index where a name ("Lynx") is both a Latin name and a common name
TaxonomyFileC ==
    << "g1;Mammalia;Carnivora;Canidae;Vulpes;vulpes;Red Fox",
       "g13;Mammalia;Carnivora;Felidae;Lynx;;Lynx",
       "g6;Mammalia;Carnivora;Felidae;Lynx;rufus;Bobcat" >>

TokenPool ==
    { "Vulpes vulpes", "Lynx rufus", " LYNX ", "red fox", "fennec", "a big grey thing", "" }

\* ",".join(tokens)
RECURSIVE JoinCommas(_)
JoinCommas(ts) == IF Len(ts) = 1 THEN ts[1] ELSE ts[1] \o "," \o JoinCommas(Tail(ts))

ParserLines == UNION { {JoinCommas(ts) : ts \in [1..n -> TokenPool]} : n \in 1..MaxTokens }

InitP ==
    /\ \E file \in {TaxonomyFileA, TaxonomyFileC} :
          /\ latin_to_row = load(file).latin_to_row
          /\ common_to_row = load(file).common_to_row
    /\ model = FALSE
    /\ user_api_key = ""
    /\ \E line \in ParserLines : typed_lines = <<line>>
    /\ input_text = Join(typed_lines)
    /\ results = <<>>
    /\ unknown_lines = <<>>
    /\ pc = "pass1"
    /\ llm_calls = 0
    /\ outcome = "running"
    /\ caught = "none"
    /\ hq = NoQuery
    /\ hres = NoMatch
    /\ Unused

NextP == Pass1

SpecP == InitP /\ [][NextP]_vars

-----------------------------------------------------------------------------
(* One item of the response on its own: every candidate list against one   *)
(* unresolved row                                                          *)

MaxCands == 3

\* candidates: genus in one index and family in the other, a species, a
\* miss, an empty object, a class
CandPool ==
    { Cand(Mammalia, Carnivora, Canidae, JStr("Vulpes"), JStr("zerda")),
      Cand(JNull, JNull, JNull, JStr("Vulpes"), JStr("vulpes")),
      Cand(JNull, JNull, JNull, JStr("Urocyon"), JStr("littoralis")),
      EmptyObj,
      Cand(Mammalia, JNull, JNull, JNull, JNull),
      \* only the genus written
      Obj(<<"genus">>, <<JStr("Vulpes")>>),
      \* the keys of an item: every rank reads as None
      Obj(<<"input_text", "suggested_common">>, <<JStr("fennec"), JStr("red fox")>>) }

CandLists == UNION { [1..n -> CandPool] : n \in 0..MaxCands }

SuggestedPool == { JNull, JStr("Bobcat"), JStr("Fennec Fox") }

InitC ==
    /\ \E file \in TaxonomyFiles :
          /\ latin_to_row = load(file).latin_to_row
          /\ common_to_row = load(file).common_to_row
    /\ \E cs \in CandLists, sugg \in SuggestedPool :
          next_item = Item(JStr("fennec"), JList(cs), JNull, sugg)
    /\ typed_lines = <<"fennec">>
    /\ input_text = "fennec"
    /\ results = <<match_single_line_exact("fennec")>>
    /\ unknown_lines = UnknownOf(results)
    /\ pc = "item"
    /\ model = TRUE
    /\ user_api_key = ""
    /\ llm_calls = 1
    /\ outcome = "running"
    /\ caught = "none"
    /\ hq = NoQuery
    /\ hres = NoMatch
    /\ stub = NoStub
    /\ first_results = <<>>
    /\ invocation = 0
    /\ threads = <<>>
    /\ file_read = <<>>
    /\ query = ""
    /\ found = None

\* lines 250-300: the iteration of `for item in data` that visits next_item
VisitItem ==
    /\ pc = "item"
    /\ LET r == ApplyItem(results, next_item)
       IN  /\ results' = r.results
           /\ caught' = r.exc
    /\ pc' = "visited"
    /\ UNCHANGED <<latin_to_row, common_to_row, model, typed_lines, input_text,
                   user_api_key, unknown_lines, llm_calls, outcome, hq, hres, stub,
                   first_results, invocation, threads, file_read, query, found, next_item>>

NextC == VisitItem

SpecC == InitC /\ [][NextC]_vars

-----------------------------------------------------------------------------
(* Properties of get_by_hierarchy (checked under SpecH)                    *)

\* a rank is present when it is a string with something left after trimming
Present(v) == v.t = "str" /\ Strip(v.s) # ""
KeyOf(v) == Strip(Lower(v.s))
InTable(k) == k \in DOMAIN latin_to_row
SpeciesKey(q) == KeyOf(q.genus) \o " " \o KeyOf(q.species)

\* the ranks coarser than species, finest first
CoarseRanks == <<"genus", "family", "order", "class">>
CoarseHits(q) == {i \in 1..4 : Present(q[CoarseRanks[i]]) /\ InTable(KeyOf(q[CoarseRanks[i]]))}

\* C1 as stated: with genus and species both present, get_by_hierarchy
\* returns a species-level match or no match, never a coarser one.
C1_SpeciesOrNothing ==
    (pc = "resolved" /\ Present(hq.genus) /\ Present(hq.species))
        => hres.level \in {"species", "None"}

\* C1, amended: with genus and species both present, the result is the
\* species-level entry of "<genus> <species>" when that name is in the table;
\* when it is not, the result is the entry and level of the finest of genus,
\* family, order, class that is present and in the table, and (None, None)
\* only when none of them is.
C1_FallsThroughToCoarserRank ==
    (pc = "resolved" /\ Present(hq.genus) /\ Present(hq.species)) =>
        /\ hres.exc = "none"
        /\ InTable(SpeciesKey(hq)) =>
              hres = [entry |-> latin_to_row[SpeciesKey(hq)], level |-> "species",
                      exc |-> "none"]
        /\ (~InTable(SpeciesKey(hq)) /\ CoarseHits(hq) # {}) =>
              LET rank == CoarseRanks[Min(CoarseHits(hq))]
              IN  /\ hres.level = rank
                  /\ hres.entry = latin_to_row[KeyOf(hq[rank])]
        /\ (~InTable(SpeciesKey(hq)) /\ CoarseHits(hq) = {}) =>
              (hres.entry = None /\ hres.level = "None")

\* the species lookup missed and a coarser rank of the same tuple was returned
C1_Witness ==
    /\ pc = "resolved"
    /\ Present(hq.genus) /\ Present(hq.species)
    /\ ~InTable(SpeciesKey(hq))
    /\ hres.level = "family"
    /\ hres.entry.latin = "canidae"

-----------------------------------------------------------------------------
(* Properties of pass 3 (checked under Spec)                               *)

IsHigher(r) == r.match_level \in HigherLevels

\* rows i and j hold the same latin at a higher rank
Collide(res, i, j) ==
    /\ i # j
    /\ IsHigher(res[i]) /\ IsHigher(res[j])
    /\ res[i].latin = res[j].latin

Cleared(r) == r.latin = "" /\ r.common = "" /\ r.match_level = "ambiguous"

\* C2: pass 3 clears latin and common and sets match_level = 'ambiguous' on
\* every result that shared its latin, after pass 2, with another result
\* matched at genus, family, order or class level.
C2_CollidingHigherMatchesCleared ==
    [][ pc = "pass3" =>
          \A i, j \in 1..Len(results) :
              Collide(results, i, j) => Cleared(results'[i]) ]_vars

\* three lines ended ambiguous, two of them with identical raw text
C2_Witness ==
    /\ pc = "done"
    /\ Len(results) = 3
    /\ \A k \in 1..3 : Cleared(results[k])
    /\ results[1].raw_input = results[2].raw_input

\* C3: pass 3 leaves unchanged every result matched at species level or by
\* common-name fallback, every result without match_level, and every
\* higher-rank result that is alone in its latin group.
C3_OthersUntouched ==
    [][ pc = "pass3" =>
          /\ Len(results') = Len(results)
          /\ \A i \in 1..Len(results) :
                (\/ results[i].match_level \in {"species", "common_name_fallback", NoLevel}
                 \/ (IsHigher(results[i])
                       /\ \A j \in 1..Len(results) : ~Collide(results, i, j)))
                    => results'[i] = results[i] ]_vars

\* a species-level match of the same genus survives next to two retracted rows
C3_Witness ==
    /\ pc = "done"
    /\ \E i, j, k \in 1..Len(results) :
          /\ i # j
          /\ Cleared(results[i]) /\ Cleared(results[j])
          /\ results[k].match_level = "species"
          /\ results[k].latin = "vulpes vulpes"

-----------------------------------------------------------------------------
(* Properties of pass 2 (checked under Spec)                               *)

Changed(res, res2) == {k \in 1..Len(res) : res2[k] # res[k]}

Unresolved(res, k, raw) == res[k].raw_input = raw /\ res[k].latin = ""

\* the only row one item may change: the first unresolved row whose
\* raw_input is the item's input_text
ItemChangesOnlyFirst(res, item) ==
    LET res2 == ApplyItem(res, item).results
    IN  /\ Len(res2) = Len(res)
        /\ Cardinality(Changed(res, res2)) <= 1
        /\ \A k \in Changed(res, res2) :
              /\ item.t = "obj" /\ get(item, "input_text", JNull).t = "str"
              /\ Unresolved(res, k, get(item, "input_text", JNull).s)
              /\ \A j \in 1..(k - 1) :
                    ~Unresolved(res, j, get(item, "input_text", JNull).s)

\* a step of pass 2 changes at most one result and leaves every result whose
\* latin is set with the latin and common it had
Pass2StepFrame ==
    pc \in {"pass2", "items"} =>
        /\ Len(results') = Len(results)
        /\ Cardinality(Changed(results, results')) <= 1
        /\ \A k \in 1..Len(results) :
              results[k].latin # "" =>
                  (results'[k].latin = results[k].latin
                     /\ results'[k].common = results[k].common)

\* C4: each item of the response changes at most one result, the first in
\* list order whose raw_input equals its input_text and whose latin is empty;
\* a result whose latin is set keeps its latin and common through pass 2.
C4_WriteBackFirstUnresolvedOnly ==
    /\ [](pc = "items" => \A item \in ItemPool : ItemChangesOnlyFirst(results, item))
    /\ [][Pass2StepFrame]_vars

\* an item filled the first of two rows with identical raw text, next to a
\* row pass 1 resolved, and the second identical row is still empty
C4_Witness ==
    /\ pc = "items"
    /\ Len(results) = 3
    /\ results[1].match_level = NoLevel /\ results[1].latin # ""
    /\ results[2].raw_input = results[3].raw_input
    /\ results[2].match_level = "species"
    /\ results[3].latin = ""

IndexEntries ==
    {latin_to_row[k] : k \in DOMAIN latin_to_row}
        \cup {common_to_row[k] : k \in DOMAIN common_to_row}

\* C5: in every returned result latin is '' or the latin of an entry of the
\* index, and common is the common field of that same entry.
C5_OnlyTableNames ==
    pc = "done" =>
        \A k \in 1..Len(results) :
            \/ results[k].latin = "" /\ results[k].common = ""
            \/ \E e \in IndexEntries :
                  results[k].latin = e.latin /\ results[k].common = e.common

\* the model suggested "red fox"; the row carries the table's "Red Fox"
C5_Witness ==
    /\ pc = "done"
    /\ \E k \in 1..Len(results) :
          /\ results[k].match_level = "common_name_fallback"
          /\ results[k].latin = "vulpes vulpes"
          /\ results[k].common = "Red Fox"

\* C6: one invocation calls the model at most once, and not at all when
\* pass 1 leaves no line unresolved.
C6_AtMostOneCall ==
    /\ llm_calls <= 1
    /\ (pc # "pass1" /\ unknown_lines = <<>>) => llm_calls = 0

\* one call served three unresolved lines, and it failed without a retry
C6_Witness ==
    /\ pc = "done"
    /\ Len(unknown_lines) = 3
    /\ llm_calls = 1
    /\ caught = "APIError"

\* C7: process_input returns normally whatever the model step did.
C7_FailOpen ==
    /\ outcome # "raised"
    /\ pc = "done" => outcome = "returned"

\* an element of the response was no object; the rows were still returned
C7_Witness ==
    /\ pc = "done"
    /\ outcome = "returned"
    /\ caught = "AttributeError"
    /\ llm_calls = 1

\* C8 as stated: when the handler caught an exception (the call failed, the
\* text was no JSON, or an element of the list was malformed), every row
\* queued for the model is as pass 1 left it.
C8_MalformedResponseResolvesNothing ==
    (pc = "pass3" /\ caught # "none") =>
        \A u \in 1..Len(unknown_lines) :
            LET r == results[unknown_lines[u].res]
            IN  r.latin = "" /\ r.common = "" /\ r.match_level = NoLevel

-----------------------------------------------------------------------------
(* Properties of process_input as a whole (checked under Spec)             *)

NoCapability == ~model /\ user_api_key = ""

\* the row of a single-token line that neither lookup finds
UnknownRow(raw) ==
    [latin |-> "", common |-> "", original_latin |-> "", original_common |-> raw,
     raw_input |-> raw, match_level |-> NoLevel]

NotInTable(raw) ==
    /\ ~Contains(raw, ",")
    /\ Strip(Lower(raw)) \notin DOMAIN latin_to_row
    /\ Strip(Lower(raw)) \notin DOMAIN common_to_row

\* C9: without a process-wide model and without a caller key the model is
\* never called and the pass-1 rows are returned as they are; a line that is
\* not in the table ends with only original_common set.
C9_NoCapabilityReturnsPass1 ==
    (pc = "done" /\ NoCapability) =>
        /\ llm_calls = 0
        /\ results = Pass1Rows(splitlines(input_text))
        /\ \A k \in 1..Len(results) :
              /\ results[k].match_level = NoLevel
              /\ NotInTable(results[k].raw_input)
                    => results[k] = UnknownRow(results[k].raw_input)

\* 'silvertip' was typed, nothing can call the model, and the row came back
C9_Witness ==
    /\ pc = "done"
    /\ NoCapability
    /\ \E k \in 1..Len(results) : results[k] = UnknownRow("silvertip")

NonBlank(lines) == SelectSeq(lines, LAMBDA l : Strip(l) # "")

\* C10: after pass 1 and until the return there is exactly one result per
\* non-blank typed line, in the order typed, with raw_input the trimmed line.
C10_OneRowPerNonBlankLine ==
    pc # "pass1" =>
        /\ Len(results) = Len(NonBlank(typed_lines))
        /\ \A k \in 1..Len(results) :
              results[k].raw_input = Strip(NonBlank(typed_lines)[k])

\* a blank line between two lines, one resolved by the model and one trimmed
C10_Witness ==
    /\ pc = "done"
    /\ Len(typed_lines) = 3
    /\ Strip(typed_lines[2]) = ""
    /\ Len(results) = 2
    /\ results[1].match_level = "genus"
    /\ results[2].raw_input = "Red Fox, Vulpes fulva"

-----------------------------------------------------------------------------
(* Repeated invocations (checked under SpecI)                              *)

\* an invocation that has left process_input
Finished(i) == threads[i].pc \in {"returned", "raised"}

\* C11 as stated: two process_input invocations on the same Matcher, with the
\* same input text and index and a stub that answers the same prompt with
\* the same response, return identical result lists.
C11_SecondInvocationSameResults ==
    \A a \in DOMAIN threads, b \in DOMAIN threads :
        (Finished(a) /\ Finished(b)) =>
            /\ threads[a].pc = "returned"
            /\ threads[a].results = threads[b].results

\* C11, amended: two process_input invocations on the same Matcher with the
\* same arguments (input text, location and user_api_key), the same index and
\* a stub that answers the same prompt with the same response return
\* identical result lists, whether one follows the other or they overlap.
C11_SameArgumentsSameResults ==
    \A a \in DOMAIN threads, b \in DOMAIN threads :
        (Finished(a) /\ Finished(b) /\ threads[a].location = threads[b].location) =>
            /\ threads[a].pc = "returned"
            /\ threads[a].results = threads[b].results

\* two invocations with the same location queried the stub, rows were
\* resolved from its answer and retracted by pass 3, beside a row pass 1
\* resolved
C11_Witness ==
    /\ Finished(1) /\ Finished(2)
    /\ threads[1].location = threads[2].location
    /\ llm_calls >= 2
    /\ \E k \in 1..Len(threads[2].results) :
          threads[2].results[k].match_level = "ambiguous"
    /\ \E k \in 1..Len(threads[2].results) :
          /\ threads[2].results[k].latin # ""
          /\ threads[2].results[k].match_level = NoLevel

-----------------------------------------------------------------------------
(* Properties of the loader and its lookups (checked under SpecL)          *)

\* the fields of a line of the file
Fields(raw) == Split(Strip(raw), ";")

\* lowercased and stripped of leading and trailing whitespace
Norm(s) == Strip(Lower(s))

FirstNonEmpty(names) ==
    IF \E i \in 1..Len(names) : names[i] # ""
    THEN names[Min({i \in 1..Len(names) : names[i] # ""})]
    ELSE ""

HasRank(f) == \E i \in 2..6 : f[i] # ""

\* the Latin name a row stands for: genus and species, or the finest rank
\* the row names
DerivedLatin(f) ==
    IF f[6] # "" THEN Lower(f[5] \o " " \o f[6])
    ELSE Lower(FirstNonEmpty(<<f[5], f[4], f[3], f[2]>>))

\* the lines read so far that load() made an entry of
LoadedRows ==
    {k \in 1..Len(file_read) :
        Len(Fields(file_read[k])) >= 7 /\ HasRank(Fields(file_read[k]))}

\* C12: a query that equals a loaded row's derived Latin name (resp. its
\* common name) once both are lowercased and stripped gets an entry with
\* that name from get_by_latin (resp. get_by_common).
C12_NormalizedLookupFindsRow ==
    /\ pc = "latin" =>
          \A k \in LoadedRows :
              Norm(DerivedLatin(Fields(file_read[k]))) = Norm(query)
                  => (found # None /\ Norm(found.latin) = Norm(query))
    /\ pc = "common" =>
          \A k \in LoadedRows :
              (Fields(file_read[k])[7] # ""
                 /\ Norm(Fields(file_read[k])[7]) = Norm(query))
                  => (found # None /\ Norm(found.common) = Norm(query))

\* C13: every line with at least 7 fields and a rank has an entry under its
\* derived Latin name, '<genus> <species>' lowercased or the lowercased
\* first non-empty of genus, family, order, class; a line without a rank has
\* none; every entry's latin is non-empty and derived from its own line.
C13_LatinKeyDerivation ==
    /\ \A k \in 1..Len(file_read) :
          LET f == Fields(file_read[k])
          IN  Len(f) >= 7 =>
                IF HasRank(f)
                THEN /\ DerivedLatin(f) \in DOMAIN latin_to_row
                     /\ latin_to_row[DerivedLatin(f)].latin = DerivedLatin(f)
                ELSE \A e \in IndexEntries : e.line_parts # f
    /\ \A e \in IndexEntries :
          /\ e.latin # ""
          /\ e.latin = DerivedLatin(e.line_parts)
          /\ \E k \in LoadedRows : Fields(file_read[k]) = e.line_parts
    /\ \A key \in DOMAIN latin_to_row : latin_to_row[key].latin = key

\* a family row was indexed under its family and a row without ranks was
\* read and left out
C13_Witness ==
    /\ pc = "loaded"
    /\ DOMAIN latin_to_row = {"canidae"}
    /\ \E k \in 1..Len(file_read) :
          Len(Fields(file_read[k])) >= 7 /\ ~HasRank(Fields(file_read[k]))

-----------------------------------------------------------------------------
(* Properties of pass 1 (checked under SpecP)                              *)

\* the comma-separated tokens of the one line typed
Tokens == StripAll(Split(Strip(input_text), ","))

KnownLatin(t)  == get_by_latin(t) # None
KnownCommon(t) == get_by_common(t) # None
Known(t)       == KnownLatin(t) \/ KnownCommon(t)

\* a table entry is found for the line
EntryFound ==
    IF Len(Tokens) = 1 THEN Known(Tokens[1]) ELSE Known(Tokens[1]) \/ Known(Tokens[2])

Queued(k) == \E i \in 1..Len(unknown_lines) : unknown_lines[i].res = k

\* C14: after pass 1 the row of a line has a non-empty latin exactly when
\* the single token, or one of the first two tokens, is a known Latin or
\* common name; otherwise latin and common are '' and the line is queued.
C14_LatinIffEntryFound ==
    pc # "pass1" =>
        \A k \in 1..Len(results) :
            /\ results[k].latin # "" <=> EntryFound
            /\ ~EntryFound => /\ results[k].latin = "" /\ results[k].common = ""
                              /\ Queued(k)

LatinShaped(t) == Len(Words(t)) <= 2

\* the four ordered rules over tokens 0 and 1
Ladder(t0, t1) ==
    IF KnownLatin(t0) /\ ~KnownLatin(t1)
    THEN [latin |-> get_by_latin(t0).latin, common |-> get_by_latin(t0).common,
          original_latin |-> t0, original_common |-> t1]
    ELSE IF KnownLatin(t1) /\ ~KnownLatin(t0)
    THEN [latin |-> get_by_latin(t1).latin, common |-> get_by_latin(t1).common,
          original_latin |-> t1, original_common |-> t0]
    ELSE IF KnownCommon(t0)
    THEN [latin |-> get_by_common(t0).latin, common |-> get_by_common(t0).common,
          original_latin |-> IF LatinShaped(t1) THEN t1 ELSE "", original_common |-> t0]
    ELSE IF KnownCommon(t1)
    THEN [latin |-> get_by_common(t1).latin, common |-> get_by_common(t1).common,
          original_latin |-> IF LatinShaped(t0) THEN t0 ELSE "", original_common |-> t1]
    ELSE [latin |-> "", common |-> "", original_latin |-> t1, original_common |-> t0]

\* C15: the row of a line with two or more tokens is what the four-rule
\* ladder gives for tokens 0 and 1, whatever the tokens after them.
C15_TwoTokenLadder ==
    (pc # "pass1" /\ Len(Tokens) >= 2) =>
        \A k \in 1..Len(results) :
            LET r == results[k]
            IN  [latin |-> r.latin, common |-> r.common,
                 original_latin |-> r.original_latin,
                 original_common |-> r.original_common] = Ladder(Tokens[1], Tokens[2])

\* rule 3 on a three-token line: token0 a known common name, token1 longer
\* than two words and discarded
C15_Witness ==
    /\ pc # "pass1"
    /\ Len(Tokens) = 3
    /\ Len(results) = 1
    /\ results[1].latin = "vulpes vulpes"
    /\ results[1].original_common = "red fox"
    /\ results[1].original_latin = ""
    /\ Tokens[2] = "a big grey thing"
    /\ Tokens[3] = "Lynx rufus"

-----------------------------------------------------------------------------
(* Properties of one response item (checked under SpecC)                   *)

\* the candidates of the item, in the order given
GivenCands == Elements(get(next_item, "candidates", JList(<<>>)))

ResolutionOf(c) ==
    get_by_hierarchy(get(c, "class", JNull), get(c, "order", JNull),
                     get(c, "family", JNull), get(c, "genus", JNull),
                     get(c, "species", JNull))

\* the positions of the candidates get_by_hierarchy returns an entry for
ResolvingCands ==
    {i \in 1..Len(GivenCands) :
        ~Falsy(GivenCands[i]) /\ ResolutionOf(GivenCands[i]).entry # None}

SuggestedHit ==
    /\ get(next_item, "suggested_common", JNull).t = "str"
    /\ get_by_common(get(next_item, "suggested_common", JNull).s) # None

\* C16: the row takes the entry and level of the first candidate, in the
\* order given, that get_by_hierarchy resolves, whatever later candidates
\* would give; suggested_common decides only when no candidate resolves, and
\* then with match_level 'common_name_fallback'.
C16_FirstResolvingCandidateWins ==
    pc = "visited" =>
        IF ResolvingCands # {}
        THEN LET h == ResolutionOf(GivenCands[Min(ResolvingCands)])
             IN  /\ results[1].latin = h.entry.latin
                 /\ results[1].common = h.entry.common
                 /\ results[1].match_level = h.level
        ELSE IF SuggestedHit
        THEN LET e == get_by_common(get(next_item, "suggested_common", JNull).s)
             IN  /\ results[1].latin = e.latin
                 /\ results[1].common = e.common
                 /\ results[1].match_level = "common_name_fallback"
        ELSE /\ results[1].latin = ""
             /\ results[1].match_level = NoLevel

\* a candidate resolving at genus was accepted although a later one resolves
\* at species and suggested_common is in the index
C16_Witness ==
    /\ pc = "visited"
    /\ results[1].match_level = "genus"
    /\ \E i \in ResolvingCands :
          i > Min(ResolvingCands) /\ ResolutionOf(GivenCands[i]).level = "species"
    /\ SuggestedHit

-----------------------------------------------------------------------------
(* The returned list (checked under Spec)                                  *)

Returned == pc = "done" /\ outcome = "returned"

\* C17 as stated: the latin of a returned higher-rank match is the latin of
\* no other returned result, whatever that result's match_level.
C17_HigherRankLatinNotShared ==
    Returned =>
        \A i \in 1..Len(results) :
            IsHigher(results[i]) =>
                \A j \in 1..Len(results) : j # i => results[j].latin # results[i].latin

\* C17: the latin of a returned higher-rank match is the latin of no other
\* returned higher-rank match; a result that is no higher-rank match may
\* hold it too.
C17_HigherRankLatinNotSharedAmongHigher ==
    Returned =>
        \A i \in 1..Len(results) :
            IsHigher(results[i]) =>
                \A j \in 1..Len(results) :
                    (j # i /\ IsHigher(results[j])) => results[j].latin # results[i].latin

\* a higher-rank match was returned beside a common_name_fallback match
\* holding the same latin, after pass 3 had looked at both
C17_Witness ==
    /\ Returned
    /\ \E i, j \in 1..Len(results) :
          /\ i # j
          /\ IsHigher(results[i])
          /\ results[j].match_level = "common_name_fallback"
          /\ results[j].latin = results[i].latin

====
